---- MODULE Spec2Model ----
(***************************************************************************)
(* Model of wicketd's CurrentRssConfig (wicketd/src/rss_config.rs): the    *)
(* piecemeal rack-setup configuration draft, its inventory refresh, bulk   *)
(* update, two-part certificate upload, the construction of the           *)
(* RackInitializeRequest and the user-visible snapshot.                    *)
(***************************************************************************)
EXTENDS Integers, Sequences, FiniteSets, TLC

\* ------------------------------------------------------------------ bounds
\* Sled slots range over 0..MaxSlot.
MaxSlot == 1
\* push_cert/push_key are explored while fewer than MaxCerts pairs are stored.
MaxCerts == 2

\* ----------------------------------------------------------- value domains
Slots == 0..MaxSlot
Serials == {"A", "B"}
GimletModel == "913-0000019"
CertBodies == {"certA", "certB", "not a cert"}
KeyBodies == {"keyA", "keyB", "not a key"}
Hashes == {"hash1", "hash2"}

\* Option<T>: None is the empty sequence, Some(x) the one-element sequence.
None == <<>>
Some(x) == <<x>>
IsSome(o) == o # <<>>

\* Result<T, E>
NoErr == [msg |-> "", slot |-> None]
Ok(v) == [ok |-> TRUE, val |-> Some(v), err |-> NoErr, panic |-> FALSE]
Err(m, s) ==
    [ok |-> FALSE, val |-> None, err |-> [msg |-> m, slot |-> s], panic |-> FALSE]
\* a panic (unreachable!()) instead of a return
Panic(m) ==
    [ok |-> FALSE, val |-> None, err |-> [msg |-> m, slot |-> None], panic |-> TRUE]
Unit == "()"

\* Baseboard::new_gimlet(serial, model, revision)
new_gimlet(serial, model, revision) ==
    [type |-> "Gimlet", identifier |-> serial, model |-> model,
     revision |-> revision]
\* A baseboard that is not a Gimlet (Baseboard::Pc)
PcBaseboard ==
    [type |-> "Pc", identifier |-> "pc", model |-> "pc-model", revision |-> 0]

\* The address the bootstrap network gives the sled with this serial, in
\* address epoch e (addresses may change between discoveries).
BootstrapIp(serial, e) == <<"fdb0", serial, e>>

\* ------------------------------------------------------ CurrentRssConfig
\* CurrentRssConfig::default()
DefaultRssConfig ==
    [inventory |-> {},
     bootstrap_sleds |-> {},
     ntp_servers |-> <<>>,
     dns_servers |-> <<>>,
     internal_services_ip_pool_ranges |-> <<>>,
     external_dns_zone_name |-> "",
     external_certificates |-> <<>>,
     recovery_silo_password_hash |-> None,
     rack_network_config |-> None,
     partial_external_certificate |-> [cert |-> None, key |-> None]]

\* BTreeMap::get(&key).copied()
MapGet(map, k) == IF k \in DOMAIN map THEN Some(map[k]) ELSE None

\* (mutant) the sync dropping the selected sleds the new inventory lacks
populate_pruning_bootstrap_sleds(self, inventory, bootstrap_peers) ==
    [self EXCEPT
       !.bootstrap_sleds =
           { sled \in self.bootstrap_sleds :
               \E sp \in inventory :
                   /\ sp.id = sled.id
                   /\ IsSome(sp.state)
                   /\ sp.state[1].serial_number = sled.baseboard.identifier },
       !.inventory =
        { [id |-> sp.id,
           baseboard |-> new_gimlet(sp.state[1].serial_number,
                                    sp.state[1].model, sp.state[1].revision),
           bootstrap_ip |-> MapGet(bootstrap_peers,
                                   new_gimlet(sp.state[1].serial_number,
                                              sp.state[1].model,
                                              sp.state[1].revision))]
          : sp \in { s \in inventory : s.id.type_ = "Sled" /\ IsSome(s.state) } }]

\* populate_available_bootstrap_sleds_from_inventory: inventory is the set
\* of SPs MGS reports, bootstrap_peers the map baseboard -> address.
populate_available_bootstrap_sleds_from_inventory(self, inventory, bootstrap_peers) ==
    [self EXCEPT !.inventory =
        { [id |-> sp.id,
           baseboard |-> new_gimlet(sp.state[1].serial_number,
                                    sp.state[1].model, sp.state[1].revision),
           bootstrap_ip |-> MapGet(bootstrap_peers,
                                   new_gimlet(sp.state[1].serial_number,
                                              sp.state[1].model,
                                              sp.state[1].revision))]
          : sp \in { s \in inventory : s.id.type_ = "Sled" /\ IsSome(s.state) } }]

\* set_recovery_user_password_hash
set_recovery_user_password_hash(self, hash) ==
    [self EXCEPT !.recovery_silo_password_hash = Some(hash)]

\* CertificateValidator::validate(cert, key) with expiration checking
\* disabled: both halves must be structurally valid and form a matching pair.
ParsesAsCert(cert) == cert \in {"certA", "certB"}
ParsesAsKey(key) == key \in {"keyA", "keyB"}
KeyMatchesCert(cert, key) ==
    \/ cert = "certA" /\ key = "keyA"
    \/ cert = "certB" /\ key = "keyB"
validate(cert, key) ==
    IF ~ParsesAsCert(cert) THEN Err("failed to parse certificate", None)
    ELSE IF ~ParsesAsKey(key) THEN Err("failed to parse private key", None)
    ELSE IF ~KeyMatchesCert(cert, key) THEN Err("certificate and private key do not match", None)
    ELSE Ok(Unit)

\* maybe_promote_external_certificate, once the pair has validated: both
\* halves are taken out of the partial certificate and pushed, as one
\* Certificate, onto external_certificates.
\* (mutant) the halves are cloned, not taken
promote_keeps_halves(self) ==
    [self EXCEPT
       !.external_certificates =
           Append(@, [cert |-> self.partial_external_certificate.cert[1],
                      key |-> self.partial_external_certificate.key[1]])]

\* (mutant) the new pair is inserted at the front
promote_prepends(self) ==
    [self EXCEPT
       !.external_certificates =
           <<[cert |-> self.partial_external_certificate.cert[1],
              key |-> self.partial_external_certificate.key[1]]>> \o @,
       !.partial_external_certificate = [cert |-> None, key |-> None]]

\* (mutant) the new pair replaces the certificates
promote_overwrites(self) ==
    [self EXCEPT
       !.external_certificates =
           <<[cert |-> self.partial_external_certificate.cert[1],
              key |-> self.partial_external_certificate.key[1]]>>,
       !.partial_external_certificate = [cert |-> None, key |-> None]]

promote(self) ==
    [self EXCEPT
       !.external_certificates =
           Append(@, [cert |-> self.partial_external_certificate.cert[1],
                      key |-> self.partial_external_certificate.key[1]]),
       !.partial_external_certificate = [cert |-> None, key |-> None]]

\* (mutant) the two waiting answers are exchanged
maybe_promote_swaps_waiting(self) ==
    LET cert == self.partial_external_certificate.cert
        key == self.partial_external_certificate.key
    IN  IF ~IsSome(cert) /\ IsSome(key)
            THEN [self |-> self, ret |-> Ok("WaitingOnKey")]
        ELSE IF IsSome(cert) /\ ~IsSome(key)
            THEN [self |-> self, ret |-> Ok("WaitingOnCert")]
        ELSE IF ~IsSome(cert) /\ ~IsSome(key)
            THEN [self |-> self, ret |-> Panic("unreachable")]
        ELSE IF ~validate(cert[1], key[1]).ok
            THEN [self |-> self, ret |-> validate(cert[1], key[1])]
        ELSE [self |-> promote(self), ret |-> Ok("CertKeyAccepted")]

\* (mutant) a pair that fails validation is dropped
maybe_promote_drops_invalid(self) ==
    LET cert == self.partial_external_certificate.cert
        key == self.partial_external_certificate.key
    IN  IF ~IsSome(cert) /\ IsSome(key)
            THEN [self |-> self, ret |-> Ok("WaitingOnCert")]
        ELSE IF IsSome(cert) /\ ~IsSome(key)
            THEN [self |-> self, ret |-> Ok("WaitingOnKey")]
        ELSE IF ~IsSome(cert) /\ ~IsSome(key)
            THEN [self |-> self, ret |-> Panic("unreachable")]
        ELSE IF ~validate(cert[1], key[1]).ok
            THEN [self |-> [self EXCEPT !.partial_external_certificate =
                                            [cert |-> None, key |-> None]],
                  ret |-> validate(cert[1], key[1])]
        ELSE [self |-> promote(self), ret |-> Ok("CertKeyAccepted")]

\* maybe_promote_external_certificate: the outcome is the draft afterwards
\* and the value returned (or the panic of unreachable!()).
maybe_promote_external_certificate(self) ==
    LET cert == self.partial_external_certificate.cert
        key == self.partial_external_certificate.key
    IN  IF ~IsSome(cert) /\ IsSome(key)
            THEN [self |-> self, ret |-> Ok("WaitingOnCert")]
        ELSE IF IsSome(cert) /\ ~IsSome(key)
            THEN [self |-> self, ret |-> Ok("WaitingOnKey")]
        ELSE IF ~IsSome(cert) /\ ~IsSome(key)
            THEN [self |-> self, ret |-> Panic("unreachable")]
        ELSE IF ~validate(cert[1], key[1]).ok
            THEN [self |-> self, ret |-> validate(cert[1], key[1])]
        ELSE [self |-> promote(self), ret |-> Ok("CertKeyAccepted")]

\* (mutant) the promotion is attempted before the cert is stored
push_cert_promotes_first(self, cert) ==
    [self |-> [maybe_promote_external_certificate(self).self
                   EXCEPT !.partial_external_certificate.cert = Some(cert)],
     ret |-> maybe_promote_external_certificate(self).ret]

\* push_cert
push_cert(self, cert) ==
    maybe_promote_external_certificate(
        [self EXCEPT !.partial_external_certificate.cert = Some(cert)])

\* (mutant) the key is stored as a fresh partial certificate
push_key_resets_partial(self, key) ==
    maybe_promote_external_certificate(
        [self EXCEPT !.partial_external_certificate =
                         [cert |-> None, key |-> Some(key)]])

\* push_key
push_key(self, key) ==
    maybe_promote_external_certificate(
        [self EXCEPT !.partial_external_certificate.key = Some(key)])

\* The first element of a BTreeSet<BootstrapSledDescription> in iteration
\* order. Ord compares the id (type, slot) first; the sets built by this
\* code hold Sled entries with pairwise distinct slots.
FirstSled(S) == CHOOSE s \in S : \A t \in S : s.id.slot <= t.id.slot
RECURSIVE IterSleds(_)
IterSleds(S) ==
    IF S = {} THEN <<>> ELSE <<FirstSled(S)>> \o IterSleds(S \ {FirstSled(S)})

MinSlot(N) == CHOOSE n \in N : \A m \in N : n <= m

\* (mutant) the self check without the test that value keeps our slot
update_self_check_presence_only(self, value, our_baseboard) ==
    IF IsSome(our_baseboard) /\ our_baseboard[1].type = "Gimlet"
          /\ ~\E sled \in self.inventory : sled.baseboard = our_baseboard[1]
    THEN Err("Inventory is missing the scrimlet where wicketd is running", None)
    ELSE Ok(Unit)

\* (mutant) the self check made for every baseboard, gimlet or not
update_self_check_any_baseboard(self, value, our_baseboard) ==
    IF IsSome(our_baseboard)
    THEN LET found == { sled \in self.inventory :
                            sled.baseboard = our_baseboard[1] }
         IN  IF found = {}
             THEN Err("Inventory is missing the scrimlet where wicketd is running", None)
             ELSE IF FirstSled(found).id.slot \notin value.bootstrap_sleds
             THEN Err("Cannot remove the scrimlet where wicketd is running from bootstrap_sleds",
                      Some(FirstSled(found).id.slot))
             ELSE Ok(Unit)
    ELSE Ok(Unit)

\* update, first part: the self check of a real gimlet baseboard.
update_self_check(self, value, our_baseboard) ==
    IF IsSome(our_baseboard) /\ our_baseboard[1].type = "Gimlet"
    THEN LET found == { sled \in self.inventory :
                            sled.baseboard = our_baseboard[1] }
         IN  IF found = {}
             THEN Err("Inventory is missing the scrimlet where wicketd is running", None)
             ELSE IF FirstSled(found).id.slot \notin value.bootstrap_sleds
             THEN Err("Cannot remove the scrimlet where wicketd is running from bootstrap_sleds",
                      Some(FirstSled(found).id.slot))
             ELSE Ok(Unit)
    ELSE Ok(Unit)

\* update, second part: the slots of value that no inventory entry has.
update_unknown_slots(self, value) ==
    { slot \in value.bootstrap_sleds :
        ~\E sled \in self.inventory : sled.id.slot = slot }

\* (mutant) the entries found are added to the selection instead of
\* replacing it
update_bootstrap_sleds_extend(self, value) ==
    self.bootstrap_sleds \cup
        { sled \in self.inventory : sled.id.slot \in value.bootstrap_sleds }

\* update, second part: the set built from the inventory entries found.
update_bootstrap_sleds(self, value) ==
    { FirstSled({ sled \in self.inventory : sled.id.slot = slot })
        : slot \in value.bootstrap_sleds \ update_unknown_slots(self, value) }

\* (mutant) the scalar fields are assigned before the slots are looked up
update_assigns_before_lookup(self, value, our_baseboard) ==
    LET assigned ==
            [self EXCEPT
               !.ntp_servers = value.ntp_servers,
               !.dns_servers = value.dns_servers,
               !.internal_services_ip_pool_ranges =
                   value.internal_services_ip_pool_ranges,
               !.external_dns_zone_name = value.external_dns_zone_name,
               !.rack_network_config = Some(value.rack_network_config)]
    IN  IF ~update_self_check(self, value, our_baseboard).ok
            THEN [self |-> self,
                  ret |-> update_self_check(self, value, our_baseboard)]
        ELSE IF update_unknown_slots(self, value) # {}
            THEN [self |-> assigned,
                  ret |-> Err("cannot add unknown sled to bootstrap_sleds",
                              Some(MinSlot(update_unknown_slots(self, value))))]
        ELSE [self |-> [assigned EXCEPT
                          !.bootstrap_sleds = update_bootstrap_sleds(self, value)],
              ret |-> Ok(Unit)]

\* (mutant) the DNS servers of value are dropped
update_without_dns(self, value, our_baseboard) ==
    IF ~update_self_check(self, value, our_baseboard).ok
        THEN [self |-> self, ret |-> update_self_check(self, value, our_baseboard)]
    ELSE IF update_unknown_slots(self, value) # {}
        THEN [self |-> self,
              ret |-> Err("cannot add unknown sled to bootstrap_sleds",
                          Some(MinSlot(update_unknown_slots(self, value))))]
    ELSE [self |-> [self EXCEPT
                      !.bootstrap_sleds = update_bootstrap_sleds(self, value),
                      !.ntp_servers = value.ntp_servers,
                      !.internal_services_ip_pool_ranges =
                          value.internal_services_ip_pool_ranges,
                      !.external_dns_zone_name = value.external_dns_zone_name,
                      !.rack_network_config = Some(value.rack_network_config)],
          ret |-> Ok(Unit)]

\* update
update(self, value, our_baseboard) ==
    IF ~update_self_check(self, value, our_baseboard).ok
        THEN [self |-> self, ret |-> update_self_check(self, value, our_baseboard)]
    ELSE IF update_unknown_slots(self, value) # {}
        THEN [self |-> self,
              ret |-> Err("cannot add unknown sled to bootstrap_sleds",
                          Some(MinSlot(update_unknown_slots(self, value))))]
    ELSE [self |-> [self EXCEPT
                      !.bootstrap_sleds = update_bootstrap_sleds(self, value),
                      !.ntp_servers = value.ntp_servers,
                      !.dns_servers = value.dns_servers,
                      !.internal_services_ip_pool_ranges =
                          value.internal_services_ip_pool_ranges,
                      !.external_dns_zone_name = value.external_dns_zone_name,
                      !.rack_network_config = Some(value.rack_network_config)],
          ret |-> Ok(Unit)]

\* const RACK_SUBNET, RECOVERY_SILO_NAME, RECOVERY_SILO_USERNAME
RACK_SUBNET == "fd00:1122:3344:0100::"
RECOVERY_SILO_NAME == "recovery"
RECOVERY_SILO_USERNAME == "recovery"

\* validate_rack_network_config: omicron_common's RackNetworkConfig to the
\* bootstrap-agent client's, the two enums translated variant by variant.
BaPortSpeed(speed) ==
    CASE speed = "PortSpeed::Speed0G" -> "BaPortSpeed::Speed0G"
      [] speed = "PortSpeed::Speed1G" -> "BaPortSpeed::Speed1G"
      [] speed = "PortSpeed::Speed10G" -> "BaPortSpeed::Speed10G"
      [] speed = "PortSpeed::Speed25G" -> "BaPortSpeed::Speed25G"
      [] speed = "PortSpeed::Speed40G" -> "BaPortSpeed::Speed40G"
      [] speed = "PortSpeed::Speed50G" -> "BaPortSpeed::Speed50G"
      [] speed = "PortSpeed::Speed100G" -> "BaPortSpeed::Speed100G"
      [] speed = "PortSpeed::Speed200G" -> "BaPortSpeed::Speed200G"
      [] speed = "PortSpeed::Speed400G" -> "BaPortSpeed::Speed400G"
BaPortFec(fec) ==
    CASE fec = "PortFec::Firecode" -> "BaPortFec::Firecode"
      [] fec = "PortFec::None" -> "BaPortFec::None"
      [] fec = "PortFec::Rs" -> "BaPortFec::Rs"
validate_rack_network_config(config) ==
    [gateway_ip |-> config.gateway_ip,
     infra_ip_first |-> config.infra_ip_first,
     infra_ip_last |-> config.infra_ip_last,
     uplink_port |-> config.uplink_port,
     uplink_port_speed |-> BaPortSpeed(config.uplink_port_speed),
     uplink_port_fec |-> BaPortFec(config.uplink_port_fec),
     uplink_ip |-> config.uplink_ip,
     uplink_vid |-> config.uplink_vid]

\* address::IpRange to the bootstrap-agent client's IpRange
BaIpRange(pool) ==
    CASE pool.variant = "address::IpRange::V4" ->
            [variant |-> "IpRange::V4", first |-> pool.first, last |-> pool.last]
      [] pool.variant = "address::IpRange::V6" ->
            [variant |-> "IpRange::V6", first |-> pool.first, last |-> pool.last]

\* the loop over self.bootstrap_sleds accepting a sled only at the address it
\* was given at the inventory sync
RECURSIVE sleds_without_cached_ip(_, _)
sleds_without_cached_ip(sleds, known_bootstrap_sleds) ==
    IF sleds = <<>> THEN <<>>
    ELSE (IF /\ IsSome(Head(sleds).bootstrap_ip)
             /\ MapGet(known_bootstrap_sleds, Head(sleds).baseboard)
                    = Head(sleds).bootstrap_ip
          THEN <<>> ELSE <<Head(sleds)>>)
         \o sleds_without_cached_ip(Tail(sleds), known_bootstrap_sleds)

\* start_rss_request, the loop over self.bootstrap_sleds: the selected sleds
\* in iteration order whose baseboard the peers map does not hold.
RECURSIVE sleds_without_ip(_, _)
sleds_without_ip(sleds, known_bootstrap_sleds) ==
    IF sleds = <<>> THEN <<>>
    ELSE (IF IsSome(MapGet(known_bootstrap_sleds, Head(sleds).baseboard))
          THEN <<>> ELSE <<Head(sleds)>>)
         \o sleds_without_ip(Tail(sleds), known_bootstrap_sleds)

\* the request listing the address each selected sled was given at the
\* inventory sync
rack_initialize_request_cached_ips(self, bootstrap_peers) ==
    [rack_subnet |-> RACK_SUBNET,
     bootstrap_discovery |->
         [variant |-> "OnlyThese",
          ips |-> [i \in 1..Cardinality(self.bootstrap_sleds) |->
                     IterSleds(self.bootstrap_sleds)[i].bootstrap_ip[1]]],
     rack_secret_threshold |-> 1,
     ntp_servers |-> self.ntp_servers,
     dns_servers |-> self.dns_servers,
     internal_services_ip_pool_ranges |->
         [i \in 1..Len(self.internal_services_ip_pool_ranges) |->
            BaIpRange(self.internal_services_ip_pool_ranges[i])],
     external_dns_zone_name |-> self.external_dns_zone_name,
     external_certificates |-> self.external_certificates,
     recovery_silo |->
         [silo_name |-> RECOVERY_SILO_NAME,
          user_name |-> RECOVERY_SILO_USERNAME,
          user_password_hash |-> self.recovery_silo_password_hash[1]],
     rack_network_config |->
         Some(validate_rack_network_config(self.rack_network_config[1]))]

\* start_rss_request, the conversions and the RackInitializeRequest built
\* once every check has passed.
rack_initialize_request(self, bootstrap_peers) ==
    [rack_subnet |-> RACK_SUBNET,
     bootstrap_discovery |->
         [variant |-> "OnlyThese",
          ips |-> [i \in 1..Cardinality(self.bootstrap_sleds) |->
                     bootstrap_peers[
                         IterSleds(self.bootstrap_sleds)[i].baseboard]]],
     rack_secret_threshold |-> 1,
     ntp_servers |-> self.ntp_servers,
     dns_servers |-> self.dns_servers,
     internal_services_ip_pool_ranges |->
         [i \in 1..Len(self.internal_services_ip_pool_ranges) |->
            BaIpRange(self.internal_services_ip_pool_ranges[i])],
     external_dns_zone_name |-> self.external_dns_zone_name,
     external_certificates |-> self.external_certificates,
     recovery_silo |->
         [silo_name |-> RECOVERY_SILO_NAME,
          user_name |-> RECOVERY_SILO_USERNAME,
          user_password_hash |-> self.recovery_silo_password_hash[1]],
     rack_network_config |->
         Some(validate_rack_network_config(self.rack_network_config[1]))]

\* start_rss_request looking at the DNS servers before the NTP servers and at
\* the sleds' addresses before the rack network config
start_rss_request_reordered(self, bootstrap_peers) ==
    IF self.bootstrap_sleds = {}
        THEN Err("bootstrap_sleds is empty (have you uploaded a config?)", None)
    ELSE IF self.dns_servers = <<>>
        THEN Err("at least one DNS server is required", None)
    ELSE IF self.ntp_servers = <<>>
        THEN Err("at least one NTP server is required", None)
    ELSE IF self.internal_services_ip_pool_ranges = <<>>
        THEN Err("at least one internal services IP pool range is required", None)
    ELSE IF self.external_dns_zone_name = ""
        THEN Err("external dns zone name is required", None)
    ELSE IF self.external_certificates = <<>>
        THEN Err("at least one certificate/key pair is required", None)
    ELSE IF ~IsSome(self.recovery_silo_password_hash)
        THEN Err("recovery password not yet set", None)
    ELSE IF sleds_without_ip(IterSleds(self.bootstrap_sleds), bootstrap_peers) # <<>>
        THEN Err("IP address not (yet?) known for sled",
                 Some(Head(sleds_without_ip(IterSleds(self.bootstrap_sleds),
                                            bootstrap_peers)).id.slot))
    ELSE IF ~IsSome(self.rack_network_config)
        THEN Err("rack network config not set (have you uploaded a config?)", None)
    ELSE Ok(rack_initialize_request(self, bootstrap_peers))

\* start_rss_request
start_rss_request(self, bootstrap_peers) ==
    IF self.bootstrap_sleds = {}
        THEN Err("bootstrap_sleds is empty (have you uploaded a config?)", None)
    ELSE IF self.ntp_servers = <<>>
        THEN Err("at least one NTP server is required", None)
    ELSE IF self.dns_servers = <<>>
        THEN Err("at least one DNS server is required", None)
    ELSE IF self.internal_services_ip_pool_ranges = <<>>
        THEN Err("at least one internal services IP pool range is required", None)
    ELSE IF self.external_dns_zone_name = ""
        THEN Err("external dns zone name is required", None)
    ELSE IF self.external_certificates = <<>>
        THEN Err("at least one certificate/key pair is required", None)
    ELSE IF ~IsSome(self.recovery_silo_password_hash)
        THEN Err("recovery password not yet set", None)
    ELSE IF ~IsSome(self.rack_network_config)
        THEN Err("rack network config not set (have you uploaded a config?)", None)
    ELSE IF sleds_without_ip(IterSleds(self.bootstrap_sleds), bootstrap_peers) # <<>>
        THEN Err("IP address not (yet?) known for sled",
                 Some(Head(sleds_without_ip(IterSleds(self.bootstrap_sleds),
                                            bootstrap_peers)).id.slot))
    ELSE Ok(rack_initialize_request(self, bootstrap_peers))

\* the snapshot whose password flag tells one hash from the other
CurrentRssUserConfig_from_hash_dependent(rss_) ==
    [sensitive |->
        [num_external_certificates |-> Len(rss_.external_certificates),
         recovery_silo_password_set |->
             rss_.recovery_silo_password_hash = Some("hash1")],
     insensitive |->
        [bootstrap_sleds |-> IF rss_.bootstrap_sleds # {}
                             THEN rss_.bootstrap_sleds ELSE rss_.inventory,
         ntp_servers |-> rss_.ntp_servers,
         dns_servers |-> rss_.dns_servers,
         internal_services_ip_pool_ranges |->
             rss_.internal_services_ip_pool_ranges,
         external_dns_zone_name |-> rss_.external_dns_zone_name,
         rack_network_config |-> rss_.rack_network_config]]

\* the snapshot showing the stored selection even when it is empty
CurrentRssUserConfig_from_stored_selection(rss_) ==
    [sensitive |->
        [num_external_certificates |-> Len(rss_.external_certificates),
         recovery_silo_password_set |-> IsSome(rss_.recovery_silo_password_hash)],
     insensitive |->
        [bootstrap_sleds |-> rss_.bootstrap_sleds,
         ntp_servers |-> rss_.ntp_servers,
         dns_servers |-> rss_.dns_servers,
         internal_services_ip_pool_ranges |->
             rss_.internal_services_ip_pool_ranges,
         external_dns_zone_name |-> rss_.external_dns_zone_name,
         rack_network_config |-> rss_.rack_network_config]]

\* impl From<&CurrentRssConfig> for CurrentRssUserConfig
CurrentRssUserConfig_from(rss_) ==
    [sensitive |->
        [num_external_certificates |-> Len(rss_.external_certificates),
         recovery_silo_password_set |-> IsSome(rss_.recovery_silo_password_hash)],
     insensitive |->
        [bootstrap_sleds |-> IF rss_.bootstrap_sleds # {}
                             THEN rss_.bootstrap_sleds ELSE rss_.inventory,
         ntp_servers |-> rss_.ntp_servers,
         dns_servers |-> rss_.dns_servers,
         internal_services_ip_pool_ranges |->
             rss_.internal_services_ip_pool_ranges,
         external_dns_zone_name |-> rss_.external_dns_zone_name,
         rack_network_config |-> rss_.rack_network_config]]

\* ------------------------------------------------------------ the inputs
\* What MGS reports: every sled slot has an SP, whose state is unknown or
\* names the serial of the sled in it (a serial sits in one slot at most);
\* the switch SP is in the inventory too.
SledSp(slot, who) ==
    [id |-> [type_ |-> "Sled", slot |-> slot],
     state |-> IF who = "unknown" THEN None
               ELSE Some([serial_number |-> who, model |-> GimletModel,
                          revision |-> 6])]
SwitchSp ==
    [id |-> [type_ |-> "Switch", slot |-> 0],
     state |-> Some([serial_number |-> "SW", model |-> "913-0000006",
                     revision |-> 4])]
RackInventories ==
    { { SledSp(slot, f[slot]) : slot \in Slots } \cup {SwitchSp} :
        f \in { g \in [Slots -> Serials \cup {"unknown"}] :
                  \A m, n \in Slots :
                      (m # n /\ g[m] = g[n]) => g[m] = "unknown" } }

\* the baseboard of the gimlet with this serial
GimletOf(sn) == new_gimlet(sn, GimletModel, 6)

\* BootstrapPeers::sleds(): the sleds of `present` at their addresses of
\* address epoch e.
PeersOf(present, e) ==
    [b \in { GimletOf(sn) : sn \in present }
        |-> BootstrapIp(b.identifier, e)]
BootstrapPeerMaps(epochs) ==
    { PeersOf(present, e) : present \in SUBSET Serials, e \in epochs }

\* our_baseboard: Option<&Baseboard>
OurBaseboards ==
    {None, Some(PcBaseboard)}
        \cup { Some(GimletOf(sn)) : sn \in Serials }

\* PutRssUserConfigInsensitive
NetworkConfig ==
    [gateway_ip |-> "172.20.15.225",
     infra_ip_first |-> "172.20.15.37",
     infra_ip_last |-> "172.20.15.38",
     uplink_port |-> "qsfp0",
     uplink_port_speed |-> "PortSpeed::Speed40G",
     uplink_port_fec |-> "PortFec::None",
     uplink_ip |-> "172.20.15.37",
     uplink_vid |-> None]
PoolRange ==
    [variant |-> "address::IpRange::V4",
     first |-> "172.20.15.225", last |-> "172.20.15.230"]
PutValue(sleds, ntp, dns, pools, zone) ==
    [bootstrap_sleds |-> sleds,
     ntp_servers |-> ntp,
     dns_servers |-> dns,
     internal_services_ip_pool_ranges |-> pools,
     external_dns_zone_name |-> zone,
     rack_network_config |-> NetworkConfig]
\* every field filled in, or NTP and the pool only
PutValues ==
    { PutValue(sleds, <<"ntp.example.com">>, <<"1.1.1.1">>, <<PoolRange>>,
               "example.com") : sleds \in SUBSET Slots }
    \cup { PutValue(sleds, <<"ntp.example.com", "ntp2.example.com">>, <<>>,
                    <<PoolRange>>, "") : sleds \in SUBSET Slots }

VARIABLES rss, last

vars == <<rss, last>>

\* rss is the CurrentRssConfig; last is the latest call on it: the
\* operation and what it returned.
Init ==
    /\ rss = DefaultRssConfig
    /\ last = [op |-> "new", ret |-> Ok(Unit)]

Sync(inventories, peer_maps) ==
    \E inventory \in inventories, bootstrap_peers \in peer_maps :
        /\ rss' = populate_available_bootstrap_sleds_from_inventory(
                      rss, inventory, bootstrap_peers)
        /\ last' = [op |-> "sync", ret |-> Ok(Unit)]

Update(values, boards) ==
    \E value \in values, our_baseboard \in boards :
        /\ rss' = update(rss, value, our_baseboard).self
        /\ last' = [op |-> "update", ret |-> update(rss, value, our_baseboard).ret]

PushCert(certs, cap) ==
    \E cert \in certs :
        /\ Len(rss.external_certificates) < cap
        /\ rss' = push_cert(rss, cert).self
        /\ last' = [op |-> "push_cert", ret |-> push_cert(rss, cert).ret]

PushKey(keys, cap) ==
    \E key \in keys :
        /\ Len(rss.external_certificates) < cap
        /\ rss' = push_key(rss, key).self
        /\ last' = [op |-> "push_key", ret |-> push_key(rss, key).ret]

SetPassword(hashes) ==
    \E hash \in hashes :
        /\ rss' = set_recovery_user_password_hash(rss, hash)
        /\ last' = [op |-> "set_password", ret |-> Ok(Unit)]

\* a finalize that moves the certificates out of the draft into the request
Finalize_takes_certificates(peer_maps) ==
    \E bootstrap_peers \in peer_maps :
        /\ rss' = IF start_rss_request(rss, bootstrap_peers).ok
                  THEN [rss EXCEPT !.external_certificates = <<>>]
                  ELSE rss
        /\ last' = [op |-> "finalize",
                    ret |-> start_rss_request(rss, bootstrap_peers)]

Finalize(peer_maps) ==
    \E bootstrap_peers \in peer_maps :
        /\ rss' = rss
        /\ last' = [op |-> "finalize",
                    ret |-> start_rss_request(rss, bootstrap_peers)]

Snapshot ==
    /\ rss' = rss
    /\ last' = [op |-> "snapshot", ret |-> Ok(CurrentRssUserConfig_from(rss))]

\* The sled side in full (every inventory, every selection, every
\* baseboard), one certificate pair at most.
Next ==
    \/ Sync(RackInventories, {PeersOf(Serials, 1)})
    \/ Update(PutValues, OurBaseboards)
    \/ PushCert({"certA"}, 1)
    \/ PushKey({"keyA"}, 1)
    \/ SetPassword({"hash1"})
    \/ Finalize(BootstrapPeerMaps({1}))
    \/ Snapshot

Spec == Init /\ [][Next]_vars

\* The certificate side in full (every cert and key body, in every order, up
\* to MaxCerts pairs), one inventory and two selections.
OneSledInventory ==
    { SledSp(slot, IF slot = 0 THEN "A" ELSE "unknown") : slot \in Slots }
        \cup {SwitchSp}
NextCert ==
    \/ Sync({OneSledInventory}, {PeersOf(Serials, 1)})
    \/ Update({ v \in PutValues : v.bootstrap_sleds \in {{0}, {1}}
                                    /\ v.dns_servers # <<>> },
              {None})
    \/ PushCert(CertBodies, MaxCerts)
    \/ PushKey(KeyBodies, MaxCerts)
    \/ SetPassword(Hashes)
    \/ Finalize({PeersOf(Serials, 1)})
    \/ Snapshot

SpecCert == Init /\ [][NextCert]_vars

\* The inventory side in full (every inventory against every peers map, so
\* that sleds come with and without an address), every selection by a node
\* that is no gimlet, one certificate pair at most.
NextSync ==
    \/ Sync(RackInventories, BootstrapPeerMaps({1}))
    \/ Update({ v \in PutValues : v.dns_servers # <<>> }, {None})
    \/ PushCert({"certA"}, 1)
    \/ PushKey({"keyA"}, 1)
    \/ SetPassword({"hash1"})
    \/ Finalize(BootstrapPeerMaps({1}))
    \/ Snapshot

SpecSync == Init /\ [][NextSync]_vars

\* The finalize side in full (every required field set and unset on its own,
\* every peers map at two address epochs, two password hashes), two
\* inventories of which the second drops slot 1, one certificate pair at most.
TwoSledInventory ==
    { SledSp(slot, IF slot = 0 THEN "A" ELSE IF slot = 1 THEN "B"
                   ELSE "unknown") : slot \in Slots }
        \cup {SwitchSp}
EachFieldPutValues ==
    { PutValue(sleds, ntp, dns, pools, zone) :
        sleds \in SUBSET Slots,
        ntp \in {<<>>, <<"ntp.example.com">>},
        dns \in {<<>>, <<"1.1.1.1">>},
        pools \in {<<>>, <<PoolRange>>},
        zone \in {"", "example.com"} }
NextFinal ==
    \/ Sync({TwoSledInventory, OneSledInventory}, {PeersOf(Serials, 1)})
    \/ Update(EachFieldPutValues, {None})
    \/ PushCert({"certA"}, 1)
    \/ PushKey({"keyA"}, 1)
    \/ SetPassword(Hashes)
    \/ Finalize(BootstrapPeerMaps({1, 2}))
    \/ Snapshot

SpecFinal == Init /\ [][NextFinal]_vars

\* The request side in full (both sleds, every selection, one or two NTP
\* servers, two password hashes, two certificate pairs in either order up to
\* MaxCerts, every peers map at two address epochs), every field filled in.
FilledPutValues ==
    { PutValue(sleds, ntp, <<"1.1.1.1">>, <<PoolRange>>, "example.com") :
        sleds \in SUBSET Slots,
        ntp \in {<<"ntp.example.com">>,
                 <<"ntp.example.com", "ntp2.example.com">>} }
NextRequest ==
    \/ Sync({TwoSledInventory}, {PeersOf(Serials, 1)})
    \/ Update(FilledPutValues, {None})
    \/ PushCert({"certA", "certB"}, MaxCerts)
    \/ PushKey({"keyA", "keyB"}, MaxCerts)
    \/ SetPassword(Hashes)
    \/ Finalize(BootstrapPeerMaps({1, 2}))
    \/ Snapshot

SpecRequest == Init /\ [][NextRequest]_vars

\* ---------------------------------------------------------------- claims
\* by sled identity: the SP id and the baseboard, whatever the address
SameSled(a, b) == a.id = b.id /\ a.baseboard = b.baseboard
SelectedInInventory(c) ==
    \A s \in c.bootstrap_sleds : \E i \in c.inventory : SameSled(s, i)
UpdateInputs == PutValues \X OurBaseboards
IsPush == last.op \in {"push_cert", "push_key"}

\* C1 (as stated): in every reachable state the selected sleds, when there
\* are any, are a subset of the inventory by sled identity.
C1_SelectedAlwaysInInventory ==
    rss.bootstrap_sleds # {} => SelectedInInventory(rss)

\* C1 (amended): every successful update leaves the selected sleds a subset
\* of the inventory by sled identity, and every operation but the inventory
\* sync keeps them one.
C1_SelectedInInventoryUntilSync ==
    [][ (\/ last'.op = "update" /\ last'.ret.ok
         \/ last'.op # "sync" /\ SelectedInInventory(rss))
        => SelectedInInventory(rss') ]_vars

\* a selection made by update is still in the inventory by identity after a
\* sync that changed the address of a selected sled and a later push_key
C1_Witness ==
    /\ last.op = "push_key"
    /\ rss.bootstrap_sleds # {}
    /\ SelectedInInventory(rss)
    /\ \E s \in rss.bootstrap_sleds : s \notin rss.inventory

\* C2: an update that returns an error leaves every field of the draft as
\* it was before the call.
C2_FailedUpdateChangesNothing ==
    [][ (last'.op = "update" /\ ~last'.ret.ok) => rss' = rss ]_vars

\* an update has failed on an unknown slot in a draft that is filled in
C2_Witness ==
    /\ last.op = "update"
    /\ ~last.ret.ok
    /\ last.ret.err.msg = "cannot add unknown sled to bootstrap_sleds"
    /\ rss.bootstrap_sleds # {}
    /\ rss.ntp_servers # <<>>
    /\ rss.external_certificates # <<>>

\* C3: an update by a gimlet whose baseboard is in the inventory is rejected
\* when the selection leaves out its slot, and after a successful update by a
\* gimlet the selection holds the inventory entry of that gimlet.
C3_SelfInclusion ==
    \A value \in PutValues, sn \in Serials :
        LET board == GimletOf(sn)
            mine == { s \in rss.inventory : s.baseboard = board }
            r == update(rss, value, Some(board))
        IN  /\ (\E s \in mine : s.id.slot \notin value.bootstrap_sleds)
                => ~r.ret.ok
            /\ r.ret.ok =>
                \E s \in r.self.bootstrap_sleds :
                    s \in rss.inventory /\ s.baseboard = board

\* an update was rejected for leaving out the sled wicketd runs on
C3_Witness ==
    /\ last.op = "update"
    /\ ~last.ret.ok
    /\ last.ret.err.msg =
        "Cannot remove the scrimlet where wicketd is running from bootstrap_sleds"
    /\ Cardinality(rss.inventory) > 1

\* C4: a successful update sets the selected sleds to the inventory entries
\* of the supplied slots (one for each), NTP, DNS, the pool ranges, the zone
\* name and the network config to the supplied values, and nothing else.
C4_SuccessfulUpdateFrame ==
    \A inp \in UpdateInputs :
        LET value == inp[1]
            r == update(rss, value, inp[2])
        IN  r.ret.ok =>
              /\ r.self =
                   [rss EXCEPT
                      !.bootstrap_sleds =
                          { s \in rss.inventory :
                              s.id.slot \in value.bootstrap_sleds },
                      !.ntp_servers = value.ntp_servers,
                      !.dns_servers = value.dns_servers,
                      !.internal_services_ip_pool_ranges =
                          value.internal_services_ip_pool_ranges,
                      !.external_dns_zone_name = value.external_dns_zone_name,
                      !.rack_network_config = Some(value.rack_network_config)]
              /\ Cardinality(r.self.bootstrap_sleds) =
                     Cardinality(value.bootstrap_sleds)

\* an update has replaced an earlier update's values in a draft that holds a
\* certificate pair and a password hash
C4_Witness ==
    /\ last.op = "update"
    /\ last.ret.ok
    /\ rss.bootstrap_sleds # {}
    /\ rss.bootstrap_sleds # rss.inventory
    /\ rss.dns_servers = <<>>
    /\ rss.external_certificates # <<>>
    /\ IsSome(rss.recovery_silo_password_hash)

Partial(c) == c.partial_external_certificate
HasBoth(c) == IsSome(Partial(c).cert) /\ IsSome(Partial(c).key)
Accepted == Ok("CertKeyAccepted")

\* C5: push_cert with no key stored returns WaitingOnKey, push_key with no
\* cert stored returns WaitingOnCert; neither is an error, and the draft
\* afterwards differs only in that the submitted half is stored.
C5_WaitingOnOtherHalf ==
    /\ \A cert \in CertBodies :
          ~IsSome(Partial(rss).key) =>
              /\ push_cert(rss, cert).ret = Ok("WaitingOnKey")
              /\ push_cert(rss, cert).self =
                    [rss EXCEPT !.partial_external_certificate.cert = Some(cert)]
    /\ \A key \in KeyBodies :
          ~IsSome(Partial(rss).cert) =>
              /\ push_key(rss, key).ret = Ok("WaitingOnCert")
              /\ push_key(rss, key).self =
                    [rss EXCEPT !.partial_external_certificate.key = Some(key)]

\* a cert was pushed with no key stored, after a pair had been accepted
C5_Witness ==
    /\ last.op = "push_cert"
    /\ last.ret = Ok("WaitingOnKey")
    /\ IsSome(Partial(rss).cert)
    /\ ~IsSome(Partial(rss).key)
    /\ rss.external_certificates # <<>>

\* when a push leaves both halves present and the pair validates, it
\* returns CertKeyAccepted, appends the pair (the half just pushed with the
\* stored other half) at the end of the certificates and clears both halves;
\* the draft is otherwise unchanged. This holds for push_cert and push_key.
C6_PairAccepted ==
    /\ \A cert \in CertBodies :
          (IsSome(Partial(rss).key) /\ validate(cert, Partial(rss).key[1]).ok) =>
              /\ push_cert(rss, cert).ret = Accepted
              /\ push_cert(rss, cert).self =
                    [rss EXCEPT
                       !.external_certificates =
                           @ \o <<[cert |-> cert, key |-> Partial(rss).key[1]]>>,
                       !.partial_external_certificate =
                           [cert |-> None, key |-> None]]
    /\ \A key \in KeyBodies :
          (IsSome(Partial(rss).cert) /\ validate(Partial(rss).cert[1], key).ok) =>
              /\ push_key(rss, key).ret = Accepted
              /\ push_key(rss, key).self =
                    [rss EXCEPT
                       !.external_certificates =
                           @ \o <<[cert |-> Partial(rss).cert[1], key |-> key]>>,
                       !.partial_external_certificate =
                           [cert |-> None, key |-> None]]

\* the halves that count: of two certs pushed in a row the second is
\* the one paired with the key that follows, and likewise for two keys.
C6_LatestHalvesPaired ==
    /\ \A c1, c2 \in CertBodies, key \in KeyBodies :
          (~IsSome(Partial(rss).key) /\ validate(c2, key).ok) =>
              LET r == push_key(push_cert(push_cert(rss, c1).self, c2).self, key)
              IN  /\ r.ret = Accepted
                  /\ r.self.external_certificates =
                        rss.external_certificates \o <<[cert |-> c2, key |-> key]>>
    /\ \A k1, k2 \in KeyBodies, cert \in CertBodies :
          (~IsSome(Partial(rss).cert) /\ validate(cert, k2).ok) =>
              LET r == push_cert(push_key(push_key(rss, k1).self, k2).self, cert)
              IN  /\ r.ret = Accepted
                  /\ r.self.external_certificates =
                        rss.external_certificates \o <<[cert |-> cert, key |-> k2]>>

\* C6: a push that leaves both halves present with a pair that validates
\* returns CertKeyAccepted, appends exactly that pair (the latest cert and
\* the latest key submitted) at the end of the certificates and clears both
\* halves, whichever half came last.
C6_PairAcceptedLatestHalves == C6_PairAccepted /\ C6_LatestHalvesPaired

\* a second, different pair was accepted, key first and cert last
C6_Witness ==
    /\ last.op = "push_cert"
    /\ last.ret = Accepted
    /\ Len(rss.external_certificates) = 2
    /\ rss.external_certificates[1] # rss.external_certificates[2]
    /\ ~IsSome(Partial(rss).cert)
    /\ ~IsSome(Partial(rss).key)

\* C7: when a push leaves both halves present and the pair fails validation,
\* it returns the validator's error, and the draft afterwards differs only
\* in that the submitted half is stored: the certificates are unchanged and
\* both halves stay in the partial certificate.
C7_ValidationFailure ==
    /\ \A cert \in CertBodies :
          (IsSome(Partial(rss).key) /\ ~validate(cert, Partial(rss).key[1]).ok) =>
              /\ ~push_cert(rss, cert).ret.ok
              /\ push_cert(rss, cert).ret = validate(cert, Partial(rss).key[1])
              /\ push_cert(rss, cert).self =
                    [rss EXCEPT !.partial_external_certificate.cert = Some(cert)]
              /\ HasBoth(push_cert(rss, cert).self)
    /\ \A key \in KeyBodies :
          (IsSome(Partial(rss).cert) /\ ~validate(Partial(rss).cert[1], key).ok) =>
              /\ ~push_key(rss, key).ret.ok
              /\ push_key(rss, key).ret = validate(Partial(rss).cert[1], key)
              /\ push_key(rss, key).self =
                    [rss EXCEPT !.partial_external_certificate.key = Some(key)]
              /\ HasBoth(push_key(rss, key).self)

\* a mismatched key was pushed after a cert, with a pair already accepted
C7_Witness ==
    /\ last.op = "push_key"
    /\ ~last.ret.ok
    /\ last.ret.err.msg = "certificate and private key do not match"
    /\ HasBoth(rss)
    /\ rss.external_certificates # <<>>

\* C8 (as stated): the push that follows a failed validation resubmits one
\* half only, and so never returns CertKeyAccepted.
C8_OneHalfNeverAcceptedAfterFailure ==
    [][ (IsPush /\ ~last.ret.ok /\ last'.op \in {"push_cert", "push_key"})
        => last'.ret # Accepted ]_vars

\* C8 (amended): a failed validation keeps both halves, and resubmitting one
\* half alone is accepted exactly when it validates against the other half
\* that was kept.
C8_OneHalfAcceptedIffItMatchesKeptHalf ==
    (IsPush /\ ~last.ret.ok) =>
        /\ HasBoth(rss)
        /\ \A cert \in CertBodies :
              push_cert(rss, cert).ret = Accepted
                  <=> validate(cert, Partial(rss).key[1]).ok
        /\ \A key \in KeyBodies :
              push_key(rss, key).ret = Accepted
                  <=> validate(Partial(rss).cert[1], key).ok

\* a validation has just failed and one more push_key alone would be accepted
C8_Witness ==
    /\ IsPush
    /\ ~last.ret.ok
    /\ HasBoth(rss)
    /\ \E key \in KeyBodies : push_key(rss, key).ret = Accepted

\* C9 (as stated): between operations the partial certificate never holds
\* a cert half and a key half at once.
C9_NeverBothHalves == ~HasBoth(rss)

\* C9 (amended): between operations the partial certificate holds both
\* halves only when that pair fails validation; a pair that validates is
\* promoted within the call that completes it.
C9_BothHalvesOnlyIfInvalid ==
    HasBoth(rss) => ~validate(Partial(rss).cert[1], Partial(rss).key[1]).ok

\* both halves are stored, and a later operation has run on that draft
C9_Witness ==
    /\ HasBoth(rss)
    /\ last.op = "update"
    /\ rss.external_certificates # <<>>

\* C10: over every operation the certificates either stay as they are or,
\* on a push that returns CertKeyAccepted, gain one entry at the end, and
\* every entry is a pair that passes validation.
C10_CertificatesAppendOnly ==
    [][ /\ \/ rss'.external_certificates = rss.external_certificates
           \/ /\ last'.op \in {"push_cert", "push_key"}
              /\ last'.ret = Accepted
              /\ Len(rss'.external_certificates) =
                     Len(rss.external_certificates) + 1
              /\ SubSeq(rss'.external_certificates, 1,
                        Len(rss.external_certificates)) =
                     rss.external_certificates
        /\ \A i \in 1..Len(rss'.external_certificates) :
              validate(rss'.external_certificates[i].cert,
                       rss'.external_certificates[i].key).ok ]_vars

\* two different pairs are stored and a finalize has run since
C10_Witness ==
    /\ Len(rss.external_certificates) = 2
    /\ rss.external_certificates[1] # rss.external_certificates[2]
    /\ last.op = "finalize"
    /\ last.ret.ok

\* ------------------------------------------------------------- finalize
\* the address maps a finalize call may be given
FinalizeMaps == BootstrapPeerMaps({1, 2})
\* the eight prerequisites in the order of the claim, and the error of each
Prerequisites(c) ==
    << c.bootstrap_sleds # {},
       c.ntp_servers # <<>>,
       c.dns_servers # <<>>,
       c.internal_services_ip_pool_ranges # <<>>,
       c.external_dns_zone_name # "",
       c.external_certificates # <<>>,
       IsSome(c.recovery_silo_password_hash),
       IsSome(c.rack_network_config) >>
PrerequisiteErrors ==
    << "bootstrap_sleds is empty (have you uploaded a config?)",
       "at least one NTP server is required",
       "at least one DNS server is required",
       "at least one internal services IP pool range is required",
       "external dns zone name is required",
       "at least one certificate/key pair is required",
       "recovery password not yet set",
       "rack network config not set (have you uploaded a config?)" >>
AllMet(c) == \A i \in 1..8 : Prerequisites(c)[i]
Unmet(c) == { i \in 1..8 : ~Prerequisites(c)[i] }
FirstUnmet(c) == CHOOSE i \in Unmet(c) : \A j \in Unmet(c) : i <= j
AddressError(r) ==
    ~r.ok /\ ~r.panic /\ r.err.msg = "IP address not (yet?) known for sled"

\* C11: finalize fails fast in a fixed order. Whatever address map it is
\* given, when some prerequisite is unmet it returns the error of the first
\* unmet one in the order selected sleds, NTP servers, DNS servers, IP pool
\* ranges, DNS zone name, certificates, password hash, network config; the
\* eight errors are distinct; and an address error is returned only when all
\* eight prerequisites are met.
C11_FinalizeFailsFastInOrder ==
    /\ \A i, j \in 1..8 :
           i # j => PrerequisiteErrors[i] # PrerequisiteErrors[j]
    /\ \A peers \in FinalizeMaps :
           /\ ~AllMet(rss) =>
                  start_rss_request(rss, peers)
                      = Err(PrerequisiteErrors[FirstUnmet(rss)], None)
           /\ AddressError(start_rss_request(rss, peers)) => AllMet(rss)
\* a finalize call answered with the DNS error while the zone name and the
\* certificates are missing too
C11_Witness ==
    /\ last.op = "finalize"
    /\ last.ret = Err(PrerequisiteErrors[3], None)
    /\ Cardinality(Unmet(rss)) >= 3
    /\ {3, 5, 6} \subseteq Unmet(rss)

HasAddress(c, peers) ==
    \A s \in c.bootstrap_sleds : s.baseboard \in DOMAIN peers

\* C12: finalize succeeds if and only if all eight prerequisites are met and
\* every selected sled has an address in the map given to this very call,
\* whatever address the sled carries from the inventory sync; so with exactly
\* one prerequisite unmet it fails, and one selected sled missing from the
\* map fails the whole call.
C12_FinalizeSucceedsIffAllSetAndAddressed ==
    \A peers \in FinalizeMaps :
        /\ start_rss_request(rss, peers).ok
               <=> (AllMet(rss) /\ HasAddress(rss, peers))
        /\ Cardinality(Unmet(rss)) = 1 => ~start_rss_request(rss, peers).ok
        /\ (\E s \in rss.bootstrap_sleds : s.baseboard \notin DOMAIN peers)
               => ~start_rss_request(rss, peers).ok
\* a finalize call failing on the address of slot 1 alone: everything is
\* set, both sleds are selected and both carry an address from the sync
C12_Witness ==
    /\ last.op = "finalize"
    /\ last.ret = Err("IP address not (yet?) known for sled", Some(1))
    /\ AllMet(rss)
    /\ Cardinality(rss.bootstrap_sleds) = 2
    /\ \A s \in rss.bootstrap_sleds : IsSome(s.bootstrap_ip)

\* C13: finalize is read-only and idempotent. A finalize call, succeeding or
\* failing, leaves every field of the draft as it was, and a second call made
\* right after it with the same address map returns what the first returned.
C13_FinalizeReadOnlyIdempotent ==
    [][last'.op = "finalize" =>
          /\ rss' = rss
          /\ \E peers \in FinalizeMaps :
                 /\ last'.ret = start_rss_request(rss, peers)
                 /\ start_rss_request(rss', peers) = last'.ret]_vars
\* a finalize call that succeeded on a draft with both sleds selected
C13_Witness ==
    /\ last.op = "finalize"
    /\ last.ret.ok
    /\ Cardinality(rss.bootstrap_sleds) = 2
    /\ rss.external_certificates # <<>>

\* ------------------------------------------------------------- request
\* C14: on a successful finalize the request reflects the draft exactly. Its
\* address list has one address per selected sled, each the one the map of
\* this call gives for that sled; its certificates are the accumulated
\* sequence, same pairs in the same order; its NTP, DNS, pool and zone values
\* are the draft's; the discovery mode is "only these", the rack secret
\* threshold 1, the recovery silo and user are named "recovery" and carry the
\* stored password hash.
C14_RequestReflectsDraft ==
    \A peers \in FinalizeMaps :
        start_rss_request(rss, peers).ok =>
            LET request == start_rss_request(rss, peers).val[1]
                ips == request.bootstrap_discovery.ips
                pools == request.internal_services_ip_pool_ranges
            IN  /\ request.bootstrap_discovery.variant = "OnlyThese"
                /\ Len(ips) = Cardinality(rss.bootstrap_sleds)
                /\ { ips[i] : i \in 1..Len(ips) }
                       = { peers[s.baseboard] : s \in rss.bootstrap_sleds }
                /\ request.external_certificates = rss.external_certificates
                /\ request.ntp_servers = rss.ntp_servers
                /\ request.dns_servers = rss.dns_servers
                /\ Len(pools) = Len(rss.internal_services_ip_pool_ranges)
                /\ \A i \in 1..Len(pools) :
                       /\ pools[i].first
                              = rss.internal_services_ip_pool_ranges[i].first
                       /\ pools[i].last
                              = rss.internal_services_ip_pool_ranges[i].last
                /\ request.external_dns_zone_name = rss.external_dns_zone_name
                /\ request.rack_secret_threshold = 1
                /\ request.recovery_silo.silo_name = "recovery"
                /\ request.recovery_silo.user_name = "recovery"
                /\ request.recovery_silo.user_password_hash
                       = rss.recovery_silo_password_hash[1]
\* a request for both sleds at addresses the map gave and the inventory sync
\* did not, with two different certificate pairs and the second hash
C14_Witness ==
    /\ last.op = "finalize"
    /\ last.ret.ok
    /\ Len(last.ret.val[1].bootstrap_discovery.ips) = 2
    /\ \A s \in rss.bootstrap_sleds :
           \A i \in 1..2 :
               <<last.ret.val[1].bootstrap_discovery.ips[i]>> # s.bootstrap_ip
    /\ Len(last.ret.val[1].external_certificates) = 2
    /\ last.ret.val[1].external_certificates[1]
           # last.ret.val[1].external_certificates[2]
    /\ last.ret.val[1].recovery_silo.user_password_hash = "hash2"

\* ------------------------------------------------------------- snapshot
\* the selected sleds a snapshot of this draft shows
Shown(c) == CurrentRssUserConfig_from(c).insensitive.bootstrap_sleds

\* C15 (as stated): right after a successful update, which supplies a
\* selection, the snapshot shows the selection that update stored and not the
\* inventory default.
C15_UpdatedSelectionShown ==
    (last.op = "update" /\ last.ret.ok) => Shown(rss) = rss.bootstrap_sleds

\* C15 (amended): a snapshot reports the full inventory as the selected sleds
\* exactly when the stored selection is empty, which it is before any update
\* and again after a successful update that supplied an empty selection, and
\* reports the stored selection otherwise; taking a snapshot never changes
\* the stored selection.
C15_InventoryShownIffSelectionEmpty ==
    [][last'.op = "snapshot" =>
          /\ rss'.bootstrap_sleds = rss.bootstrap_sleds
          /\ last'.ret.val[1].insensitive.bootstrap_sleds
                 = IF rss.bootstrap_sleds = {} THEN rss.inventory
                   ELSE rss.bootstrap_sleds]_<<rss, last.op>>
\* a snapshot showing the inventory although an update has succeeded: it
\* supplied the empty selection
C15_Witness ==
    /\ last.op = "snapshot"
    /\ IsSome(rss.rack_network_config)
    /\ rss.bootstrap_sleds = {}
    /\ rss.inventory # {}
    /\ last.ret.val[1].insensitive.bootstrap_sleds = rss.inventory

\* the draft with everything secret blanked: each certificate and key body,
\* the password hash, both halves of the partial certificate
Redacted(c) ==
    [c EXCEPT
       !.external_certificates =
           [i \in 1..Len(c.external_certificates) |-> [cert |-> "", key |-> ""]],
       !.recovery_silo_password_hash =
           IF IsSome(c.recovery_silo_password_hash) THEN Some("") ELSE None,
       !.partial_external_certificate = [cert |-> None, key |-> None]]

\* C16: the snapshot is display-safe. Its sensitive half is exactly the
\* number of certificates and whether the password hash is set, and the
\* whole snapshot is the snapshot of the draft with the certificate and key
\* bytes, the hash value and the partial certificate blanked; so two drafts
\* that agree on the inventory, the user-editable fields, the certificate
\* count and the password flag produce equal snapshots.
C16_SnapshotDisplaySafe ==
    /\ CurrentRssUserConfig_from(rss).sensitive
           = [num_external_certificates |-> Len(rss.external_certificates),
              recovery_silo_password_set |->
                  rss.recovery_silo_password_hash # None]
    /\ CurrentRssUserConfig_from(rss) = CurrentRssUserConfig_from(Redacted(rss))
    /\ last.op = "snapshot" =>
           last.ret = Ok(CurrentRssUserConfig_from(Redacted(rss)))
\* a snapshot of a draft holding a certificate pair, a password hash and
\* a half-submitted certificate
C16_Witness ==
    /\ last.op = "snapshot"
    /\ Len(rss.external_certificates) = 1
    /\ rss.recovery_silo_password_hash = Some("hash2")
    /\ IsSome(Partial(rss).cert)
    /\ last.ret.val[1].sensitive
           = [num_external_certificates |-> 1,
              recovery_silo_password_set |-> TRUE]

\* --------------------------------------------------------------- update
Genuine(our_baseboard) ==
    IsSome(our_baseboard) /\ our_baseboard[1].type = "Gimlet"
UpdateErrors ==
    { "Inventory is missing the scrimlet where wicketd is running",
      "Cannot remove the scrimlet where wicketd is running from bootstrap_sleds",
      "cannot add unknown sled to bootstrap_sleds" }

\* C17: update succeeds exactly when (a) the invoking node is no gimlet, or
\* its baseboard is in the inventory and the slot of that entry is in the
\* candidate selection, and (b) every slot of the candidate selection is the
\* slot of some inventory entry. It fails in no other way, and for a node that
\* is no gimlet, or has no baseboard, (b) alone decides.
C17_UpdateSucceedsExactlyWhen ==
    \A inp \in UpdateInputs :
        LET value == inp[1]
            our_baseboard == inp[2]
            r == update(rss, value, our_baseboard).ret
            a == \/ ~Genuine(our_baseboard)
                 \/ \E sled \in rss.inventory :
                        /\ sled.baseboard = our_baseboard[1]
                        /\ sled.id.slot \in value.bootstrap_sleds
            b == \A slot \in value.bootstrap_sleds :
                     \E sled \in rss.inventory : sled.id.slot = slot
        IN  /\ r.ok <=> (a /\ b)
            /\ ~r.ok => (~r.panic /\ r.err.msg \in UpdateErrors)
            /\ ~Genuine(our_baseboard) => (r.ok <=> b)
\* an update by a gimlet the inventory does not hold was rejected, where the
\* same update by a node that is no gimlet would have gone through
C17_Witness ==
    /\ last.op = "update"
    /\ last.ret
           = Err("Inventory is missing the scrimlet where wicketd is running",
                 None)
    /\ rss.inventory # {}
    /\ \E value \in PutValues :
           /\ value.bootstrap_sleds # {}
           /\ ~update(rss, value, Some(GimletOf("A"))).ret.ok
           /\ update(rss, value, Some(PcBaseboard)).ret.ok

\* ----------------------------------------------------------------- sync
\* the SPs of an inventory that make it into the draft
SledsOfInterest(inventory) ==
    { sp \in inventory : sp.id.type_ = "Sled" /\ sp.state # None }

\* C18: the inventory sync is a pure refresh. It never fails; the inventory
\* it leaves has one descriptor for each SP of type sled whose state is
\* known, and no other, carrying the address the peers map has for that sled
\* and none when the map has none; every other field of the draft, the
\* selected sleds included, is left as it was, so that selected sleds absent
\* from the new inventory stay selected.
C18_SyncIsPureRefresh ==
    /\ last.op = "sync" => last.ret = Ok(Unit)
    /\ \A inventory \in RackInventories, peers \in BootstrapPeerMaps({1}) :
           LET after == populate_available_bootstrap_sleds_from_inventory(
                            rss, inventory, peers)
           IN  /\ after = [rss EXCEPT !.inventory = after.inventory]
               /\ Cardinality(after.inventory)
                      = Cardinality(SledsOfInterest(inventory))
               /\ \A sp \in SledsOfInterest(inventory) :
                      \E sled \in after.inventory :
                          /\ sled.id = sp.id
                          /\ sled.baseboard
                                 = GimletOf(sp.state[1].serial_number)
                          /\ sled.bootstrap_ip
                                 = IF sled.baseboard \in DOMAIN peers
                                   THEN <<peers[sled.baseboard]>> ELSE <<>>
\* a sync has left a selected sled out of the inventory and another sled in
\* it without an address
C18_Witness ==
    /\ last.op = "sync"
    /\ \E s \in rss.bootstrap_sleds :
           \A i \in rss.inventory : ~SameSled(s, i)
    /\ \E i \in rss.inventory : i.bootstrap_ip = None

\* the selected sleds the inventory no longer holds
Stale(c) ==
    { s \in c.bootstrap_sleds : \A i \in c.inventory : ~SameSled(s, i) }

\* C19: stale selections are enforced at finalize time. In every reachable
\* state where a selected sled no longer appears in the inventory, finalize
\* does not succeed, whatever address map it is given.
C19_StaleSelectionBlocksFinalize ==
    Stale(rss) # {} =>
        \A peers \in FinalizeMaps : ~start_rss_request(rss, peers).ok

\* ---------------------------------------------------------- unreachable
\* C20: the both-halves-absent case is unreachable. No call of a public
\* operation has ended in the unreachable!() branch, and in every reachable
\* draft, the ones left by accepted pairs and by failed validations
\* included, neither push_cert nor push_key of any body ends in it.
C20_UnreachableNeverHit ==
    /\ ~last.ret.panic
    /\ \A cert \in CertBodies : ~push_cert(rss, cert).ret.panic
    /\ \A key \in KeyBodies : ~push_key(rss, key).ret.panic
\* the second pair has just been accepted by a push_cert, which leaves both
\* halves absent
C20_Witness ==
    /\ last.op = "push_cert"
    /\ last.ret = Accepted
    /\ Len(rss.external_certificates) = 2
    /\ Partial(rss) = [cert |-> None, key |-> None]

====
